---- MODULE Spec2Model ----
(***************************************************************************)
(* Beam-search decoding core of training-and-backend/test.py:             *)
(*   remove_special_tokens, calc_distances, create_statistics,            *)
(*   unbatch_hypotheses, batch_single_hypotheses, pick_top_k_unique and   *)
(*   evaluate.                                                            *)
(*                                                                         *)
(* Tensors of token ids are sequences of naturals; a batched tensor is a  *)
(* sequence with one entry per input of the batch.  Probabilities are     *)
(* fixed-point numbers: the natural p stands for p / Scale.               *)
(***************************************************************************)
EXTENDS Integers, Sequences, FiniteSets, TLC

VARIABLES pc, curr_batch_size, beam_width, dec, probabilities, hypotheses,
          step_hypotheses, sequence, result, idx, forward_log, codec, pick, stat,
          table

vars == <<pc, curr_batch_size, beam_width, dec, probabilities, hypotheses,
          step_hypotheses, sequence, result, idx, forward_log, codec, pick, stat,
          table>>

evalVars == <<pc, curr_batch_size, beam_width, dec, probabilities, hypotheses,
              step_hypotheses, sequence, result, idx, forward_log>>

(***************************************************************************)
(* Bounds of the model.                                                    *)
(***************************************************************************)
MaxBatch == 2
MaxWidth == 2
MaxLen == 3
MaxCand == 2
MaxCount == 2
MaxPairs == 2
MaxBody == 2

(***************************************************************************)
(* Vocabulary: token ids as data_loader.dataset.token_to_id gives them.   *)
(***************************************************************************)
START == 0
PAD == 1
LBRACE == 2
ONE == 3
Vocab == {START, PAD, LBRACE, ONE}

\* special_tokens of evaluate: the ids of SPECIAL_TOKENS.
special_tokens == {START, PAD}
\* non_symbols_encoded of evaluate: the ids of non_symbols ("{" here).
non_symbols_encoded == {LBRACE}

\* The fixed-point value of probability 1.0 (a softmax row sums to it).
Scale == 10

Idle == [pc |-> "idle"]

(***************************************************************************)
(* Token codec: remove_special_tokens.                                     *)
(***************************************************************************)
RECURSIVE CountLeft(_, _)
\* for tok in tokens: if tok not in special_tokens: break; num_left += 1
CountLeft(tokens, special) ==
    IF tokens = <<>> \/ Head(tokens) \notin special
    THEN 0
    ELSE 1 + CountLeft(Tail(tokens), special)

RECURSIVE CountRight(_, _)
\* for tok in reversed(tokens): if tok not in special_tokens: break; num_right += 1
CountRight(tokens, special) ==
    IF tokens = <<>> \/ tokens[Len(tokens)] \notin special
    THEN 0
    ELSE 1 + CountRight(SubSeq(tokens, 1, Len(tokens) - 1), special)

\* Python's s[start:stop] for start >= 0 and stop written as the literal -k:
\* -0 is 0, so the stop index is 0; a negative stop counts from the end.
PySliceNegStop(s, start, k) ==
    LET stop == IF k = 0 THEN 0 ELSE (IF Len(s) - k < 0 THEN 0 ELSE Len(s) - k)
    IN  SubSeq(s, start + 1, stop)

\* A strip that forgets the left count.
StripNoLeft(tokens, special) ==
    PySliceNegStop(tokens, 0, CountRight(tokens, special))

\* return tokens[num_left:-num_right]
StripEnds(tokens, special) ==
    PySliceNegStop(tokens, CountLeft(tokens, special), CountRight(tokens, special))

\* A filter that drops only the first special token.
RemoveFirstOnly(tokens, special) ==
    LET hits == {i \in 1..Len(tokens) : tokens[i] \in special}
    IN  IF hits = {} THEN tokens
        ELSE LET m == CHOOSE i \in hits : \A j \in hits : i <= j
             IN  SubSeq(tokens, 1, m - 1) \o SubSeq(tokens, m + 1, Len(tokens))

\* [tok for tok in tokens if tok not in special_tokens]
RemoveAll(tokens, special) ==
    LET Keep(tok) == tok \notin special
    IN  SelectSeq(tokens, Keep)

remove_special_tokens(tokens, special, strip_only) ==
    IF strip_only THEN StripEnds(tokens, special) ELSE RemoveAll(tokens, special)

\* The three views of one full sequence (evaluate, the loop over the final beam).
SequenceViews(full) ==
    LET removed == remove_special_tokens(full, special_tokens, FALSE)
    IN  [full |-> full,
         removed |-> removed,
         symbols |-> remove_special_tokens(removed, non_symbols_encoded, FALSE)]

\* The views of a batch of full sequences.
BatchViews(full) ==
    LET removed == [b \in 1..Len(full) |->
                       remove_special_tokens(full[b], special_tokens, FALSE)]
    IN  [full |-> full,
         removed |-> removed,
         symbols |-> [b \in 1..Len(full) |->
                        remove_special_tokens(removed[b], non_symbols_encoded, FALSE)]]

RECURSIVE IsSubsequence(_, _)
IsSubsequence(a, b) ==
    IF a = <<>> THEN TRUE
    ELSE IF b = <<>> THEN FALSE
    ELSE IF Head(a) = Head(b) THEN IsSubsequence(Tail(a), Tail(b))
    ELSE IsSubsequence(a, Tail(b))

SeqsUpTo(S, n) == UNION {[1..k -> S] : k \in 0..n}

(***************************************************************************)
(* Specification of the codec: the inputs are drawn from bounded sets and *)
(* the function is applied, then applied to its own result, and the views *)
(* are taken of the input.                                                 *)
(***************************************************************************)
CodecInit ==
    /\ pc = "idle" /\ curr_batch_size = 0 /\ beam_width = 0
    /\ dec = Idle /\ probabilities = <<>> /\ hypotheses = <<>>
    /\ step_hypotheses = <<>> /\ sequence = <<>> /\ result = <<>> /\ idx = 0
    /\ forward_log = <<>> /\ table = Idle
    /\ pick = Idle /\ stat = Idle
    /\ \E tokens \in SeqsUpTo(Vocab, MaxLen), special \in SUBSET Vocab,
          strip_only \in BOOLEAN :
          codec = [pc |-> "call", tokens |-> tokens, special_tokens |-> special,
                   strip_only |-> strip_only, out |-> <<>>, again |-> <<>>,
                   views |-> <<>>]

CodecCall ==
    /\ codec.pc = "call"
    /\ codec' = [codec EXCEPT
                   !.out = remove_special_tokens(codec.tokens, codec.special_tokens,
                                                 codec.strip_only),
                   !.pc = "again"]
    /\ UNCHANGED <<evalVars, pick, stat, table>>

CodecAgain ==
    /\ codec.pc = "again"
    /\ codec' = [codec EXCEPT
                   !.again = remove_special_tokens(codec.out, codec.special_tokens,
                                                   codec.strip_only),
                   !.pc = "views"]
    /\ UNCHANGED <<evalVars, pick, stat, table>>

CodecViews ==
    /\ codec.pc = "views"
    /\ codec' = [codec EXCEPT !.views = SequenceViews(codec.tokens), !.pc = "done"]
    /\ UNCHANGED <<evalVars, pick, stat, table>>

CodecNext == CodecCall \/ CodecAgain \/ CodecViews

SpecCodec == CodecInit /\ [][CodecNext]_vars

(***************************************************************************)
(* Beam pruning: unbatch_hypotheses, batch_single_hypotheses,             *)
(* pick_top_k_unique.  A batched hypothesis holds one entry per input in  *)
(* every field; a single hypothesis holds the entries of one input.       *)
(***************************************************************************)
Range(s) == {s[i] : i \in 1..Len(s)}

\* Convert hypothesis batches to hypotheses grouped by input.
unbatch_hypotheses(hyps) ==
    IF hyps = <<>> THEN <<>>
    ELSE [i \in 1..Len(hyps[1].probability) |->
            [k \in 1..Len(hyps) |->
                [sequence |-> [full |-> hyps[k].sequence.full[i]],
                 hidden |-> hyps[k].hidden[i],
                 attn |-> [low |-> hyps[k].attn.low[i],
                           high |-> hyps[k].attn.high[i]],
                 probability |-> hyps[k].probability[i]]]]

MinLen(single_hypotheses) ==
    CHOOSE m \in {Len(single_hypotheses[i]) : i \in 1..Len(single_hypotheses)} :
        \A i \in 1..Len(single_hypotheses) : m <= Len(single_hypotheses[i])

\* A re-batching that counts the positions from the end of every list.
BatchFromEnd(single_hypotheses) ==
    LET min_len == MinLen(single_hypotheses)
        n == Len(single_hypotheses)
        At(b, i) == single_hypotheses[b][Len(single_hypotheses[b]) + 1 - i]
    IN  [i \in 1..min_len |->
            [sequence |-> [full |-> [b \in 1..n |-> At(b, i).sequence.full]],
             hidden |-> [b \in 1..n |-> At(b, i).hidden],
             attn |-> [low |-> [b \in 1..n |-> At(b, i).attn.low],
                       high |-> [b \in 1..n |-> At(b, i).attn.high]],
             probability |-> [b \in 1..n |-> At(b, i).probability]]]

\* Stack the i-th hypothesis of every input, for i below the shortest list.
batch_single_hypotheses(single_hypotheses) ==
    LET min_len == MinLen(single_hypotheses)
        n == Len(single_hypotheses)
    IN  [i \in 1..min_len |->
            [sequence |-> [full |-> [b \in 1..n |-> single_hypotheses[b][i].sequence.full]],
             hidden |-> [b \in 1..n |-> single_hypotheses[b][i].hidden],
             attn |-> [low |-> [b \in 1..n |-> single_hypotheses[b][i].attn.low],
                       high |-> [b \in 1..n |-> single_hypotheses[b][i].attn.high]],
             probability |-> [b \in 1..n |-> single_hypotheses[b][i].probability]]]

\* An insertion that orders by probability ascending.
InsertAsc(sorted, h) ==
    LET ahead == Cardinality({j \in 1..Len(sorted) : sorted[j].probability <= h.probability})
    IN  SubSeq(sorted, 1, ahead) \o <<h>> \o SubSeq(sorted, ahead + 1, Len(sorted))

\* Insert h behind every element whose probability is at least h's.
InsertDesc(sorted, h) ==
    LET ahead == Cardinality({j \in 1..Len(sorted) : sorted[j].probability >= h.probability})
    IN  SubSeq(sorted, 1, ahead) \o <<h>> \o SubSeq(sorted, ahead + 1, Len(sorted))

RECURSIVE SortInto(_, _)
SortInto(sorted, hs) ==
    IF hs = <<>> THEN sorted
    ELSE SortInto(InsertDesc(sorted, Head(hs)), Tail(hs))

\* A sort that leaves the list as it is.
SortNone(hs) == hs

\* sorted(hs, key=lambda h: h["probability"].item(), reverse=True): stable.
SortedByProbability(hs) == SortInto(<<>>, hs)

\* A walk that keeps every hypothesis, duplicate or not.
RECURSIVE WalkKeepAll(_, _, _)
WalkKeepAll(hs, unique, count) ==
    IF hs = <<>> \/ Len(unique) >= count THEN unique
    ELSE WalkKeepAll(Tail(hs), Append(unique, Head(hs)), count)

\* The walk over one input's sorted list: stop at count, skip a hypothesis
\* whose full sequence equals one already kept.
RECURSIVE UniqueWalk(_, _, _)
UniqueWalk(hs, unique, count) ==
    IF hs = <<>> \/ Len(unique) >= count THEN unique
    ELSE LET h == Head(hs)
             already_exists ==
                 \E j \in 1..Len(unique) : h.sequence.full = unique[j].sequence.full
         IN  UniqueWalk(Tail(hs),
                        IF already_exists THEN unique ELSE Append(unique, h),
                        count)

unique_hypotheses(hyps, count) ==
    LET by_seq == unbatch_hypotheses(hyps)
    IN  [i \in 1..Len(by_seq) |-> UniqueWalk(SortedByProbability(by_seq[i]), <<>>, count)]

\* min() of an empty list: no hypotheses at all.
PickRaises(hyps) == unbatch_hypotheses(hyps) = <<>>

pick_top_k_unique(hyps, count) ==
    batch_single_hypotheses(unique_hypotheses(hyps, count))

(***************************************************************************)
(* Specification of the pruning: pick_top_k_unique applied to a bounded   *)
(* list of candidate hypotheses.  The hidden state of a candidate is its  *)
(* position in the list.                                                   *)
(***************************************************************************)
PickSeqs == {<<START, LBRACE>>, <<START, ONE>>}
PickProbs == {3, 6}

Candidate(n, k, full, probability) ==
    [sequence |-> [full |-> full],
     hidden |-> [b \in 1..n |-> k],
     attn |-> [low |-> [b \in 1..n |-> 0], high |-> [b \in 1..n |-> 0]],
     probability |-> probability]

PickInit ==
    /\ pc = "idle" /\ curr_batch_size = 0 /\ beam_width = 0
    /\ dec = Idle /\ probabilities = <<>> /\ hypotheses = <<>>
    /\ step_hypotheses = <<>> /\ sequence = <<>> /\ result = <<>> /\ idx = 0
    /\ forward_log = <<>> /\ table = Idle
    /\ codec = Idle /\ stat = Idle
    /\ \E n \in 1..MaxBatch, len \in 0..MaxCand, count \in 0..MaxCount :
       \E full \in [1..len -> [1..n -> PickSeqs]],
          probability \in [1..len -> [1..n -> PickProbs]] :
          pick = [pc |-> "call",
                  hypotheses |-> [k \in 1..len |-> Candidate(n, k, full[k], probability[k])],
                  count |-> count, n |-> n, out |-> <<>>]

PickCall ==
    /\ pick.pc = "call"
    /\ pick' = IF PickRaises(pick.hypotheses)
               THEN [pick EXCEPT !.pc = "raised", !.out = "ValueError"]
               ELSE [pick EXCEPT !.pc = "done",
                                 !.out = pick_top_k_unique(pick.hypotheses, pick.count)]
    /\ UNCHANGED <<evalVars, codec, stat, table>>

PickNext == PickCall

SpecPick == PickInit /\ [][PickNext]_vars

(***************************************************************************)
(* The decoder and evaluate.                                               *)
(***************************************************************************)
RECURSIVE SumOver(_, _)
SumOver(f, S) ==
    IF S = {} THEN 0
    ELSE LET x == CHOOSE y \in S : TRUE IN f[x] + SumOver(f, S \ {x})

\* Values a softmax entry takes in the model, in units of 1 / Scale.
ProbLevels == {0, 1, 3, 6}

\* probabilities = torch.softmax(out, dim=1): one row, summing to 1.
DecoderOutputs == {d \in [Vocab -> ProbLevels] : SumOver(d, Vocab) = Scale}

\* torch.topk(row, k): k distinct ids, values descending, nothing left out
\* that is larger than the smallest one taken; the order of ties is not fixed.
TopK(row, k) ==
    {ids \in [1..k -> Vocab] :
        /\ \A i, j \in 1..k : i # j => ids[i] # ids[j]
        /\ \A i \in 1..(k - 1) : row[ids[i]] >= row[ids[i + 1]]
        /\ \A v \in Vocab \ Range(ids) : \A i \in 1..k : row[v] <= row[ids[i]]}

OutAndTopK(k) == UNION {{<<d, ids>> : ids \in TopK(d, k)} : d \in DecoderOutputs}

\* dec.reset(curr_batch_size): the coverage attention starts at zero.
DecReset(n) == [low |-> [b \in 1..n |-> 0], high |-> [b \in 1..n |-> 0]]

\* One forward call accumulates into the attention the decoder currently holds.
DecForward(alpha) ==
    [low |-> [b \in 1..Len(alpha.low) |-> alpha.low[b] + 1],
     high |-> [b \in 1..Len(alpha.high) |-> alpha.high[b] + 1]]

\* dec.coverage_attn_low.alpha = hypothesis["attn"]["low"], and "high" likewise.
SetAttention(d, attn) == [d EXCEPT !.low = attn.low, !.high = attn.high]

\* A product that adds instead.
MulAdd(p, q) == p + q

\* hypothesis["probability"] * top_prob, in fixed point.
Mul(p, q) == (p * q) \div Scale

EvalInit ==
    /\ pc = "start"
    /\ curr_batch_size \in 1..MaxBatch
    /\ beam_width \in 0..MaxWidth
    /\ dec = [low |-> <<>>, high |-> <<>>]
    /\ probabilities = <<>> /\ hypotheses = <<>> /\ step_hypotheses = <<>>
    /\ sequence = <<>> /\ result = <<>> /\ idx = 0
    /\ forward_log = <<>> /\ table = Idle
    /\ codec = Idle /\ pick = Idle /\ stat = Idle

\* dec.reset, init_hidden, the START column and the seed hypothesis.
Seed ==
    /\ pc = "start"
    /\ dec' = DecReset(curr_batch_size)
    /\ sequence' = [b \in 1..curr_batch_size |-> <<START>>]
    /\ hypotheses' = << [sequence |-> [full |-> sequence'],
                         hidden |-> [b \in 1..curr_batch_size |-> 0],
                         attn |-> dec',
                         probability |-> [b \in 1..curr_batch_size |-> Scale]] >>
    /\ step_hypotheses' = <<>>
    /\ idx' = 1
    /\ pc' = "expand"
    /\ UNCHANGED <<curr_batch_size, beam_width, probabilities, result, forward_log,
                   codec, pick, stat, table>>

\* Children that carry their parent's attention, not the one read after the call.
ChildrenStaleAttn(hypothesis, choice, next_hidden, alpha) ==
    [c \in 1..beam_width |->
        [sequence |-> [full |-> [b \in 1..curr_batch_size |->
                          Append(hypothesis.sequence.full[b], choice[b][2][c])]],
         hidden |-> next_hidden,
         attn |-> hypothesis.attn,
         probability |-> [b \in 1..curr_batch_size |->
                          (hypothesis.probability[b] * choice[b][1][choice[b][2][c]])
                              \div Scale]]]

\* Children that hold the new token alone, without the parent's sequence.
ChildrenTokenOnly(hypothesis, choice, next_hidden, alpha) ==
    [c \in 1..beam_width |->
        [sequence |-> [full |-> [b \in 1..curr_batch_size |-> <<choice[b][2][c]>>]],
         hidden |-> next_hidden,
         attn |-> alpha,
         probability |-> [b \in 1..curr_batch_size |->
                          (hypothesis.probability[b] * choice[b][1][choice[b][2][c]])
                              \div Scale]]]

\* The children of one hypothesis: one per column of the top k.
Children(hypothesis, choice, next_hidden, alpha) ==
    [c \in 1..beam_width |->
        [sequence |-> [full |-> [b \in 1..curr_batch_size |->
                          Append(hypothesis.sequence.full[b], choice[b][2][c])]],
         hidden |-> next_hidden,
         attn |-> alpha,
         probability |-> [b \in 1..curr_batch_size |->
                          Mul(hypothesis.probability[b], choice[b][1][choice[b][2][c]])]]]

\* One iteration of "for hypothesis in hypotheses".
Expand ==
    /\ pc = "expand"
    /\ idx <= Len(hypotheses)
    /\ \E choice \in [1..curr_batch_size -> OutAndTopK(beam_width)] :
         LET hypothesis == hypotheses[idx]
             next_hidden == [b \in 1..curr_batch_size |-> hypothesis.hidden[b] + 1]
             swapped == SetAttention(dec, hypothesis.attn)
         IN  /\ forward_log' = Append(forward_log, [hypothesis |-> idx, alpha |-> swapped])
             /\ dec' = DecForward(swapped)
             /\ probabilities' = [b \in 1..curr_batch_size |-> choice[b][1]]
             /\ step_hypotheses' =
                    step_hypotheses \o Children(hypothesis, choice, next_hidden, dec')
    /\ idx' = idx + 1
    /\ pc' = IF idx = Len(hypotheses) THEN "pick" ELSE "expand"
    /\ UNCHANGED <<curr_batch_size, beam_width, hypotheses, sequence, result,
                   codec, pick, stat, table>>

\* hypotheses = pick_top_k_unique(step_hypotheses, beam_width)
Pick ==
    /\ pc = "pick"
    /\ IF PickRaises(step_hypotheses)
       THEN /\ pc' = "raised"
            /\ UNCHANGED <<hypotheses, idx>>
       ELSE /\ hypotheses' = pick_top_k_unique(step_hypotheses, beam_width)
            /\ idx' = 1
            /\ pc' = IF hypotheses' = <<>> THEN "return" ELSE "views"
    /\ UNCHANGED <<curr_batch_size, beam_width, dec, probabilities, step_hypotheses,
                   sequence, result, forward_log, codec, pick, stat, table>>

\* sequence = hypothesis["sequence"] with "removed" and "symbols" added to it.
HypothesisViews(hypothesis) == BatchViews(hypothesis.sequence.full)

\* One iteration of the loop over the final beam.
Views ==
    /\ pc = "views"
    /\ idx <= Len(hypotheses)
    /\ sequence' = HypothesisViews(hypotheses[idx])
    /\ hypotheses' = [hypotheses EXCEPT ![idx].sequence = sequence']
    /\ idx' = idx + 1
    /\ pc' = IF idx = Len(hypotheses) THEN "return" ELSE "views"
    /\ UNCHANGED <<curr_batch_size, beam_width, dec, probabilities, step_hypotheses,
                   result, forward_log, codec, pick, stat, table>>

\* return sequence
Return ==
    /\ pc = "return"
    /\ result' = sequence
    /\ pc' = "done"
    /\ UNCHANGED <<curr_batch_size, beam_width, dec, probabilities, hypotheses,
                   step_hypotheses, sequence, idx, forward_log, codec, pick, stat, table>>

Next == Seed \/ Expand \/ Pick \/ Views \/ Return

Spec == EvalInit /\ [][Next]_vars

(***************************************************************************)
(* Evaluation statistics: calc_distances and create_statistics.           *)
(***************************************************************************)
Min2(a, b) == IF a <= b THEN a ELSE b

\* One row of the edit-distance table from the row before it.
RECURSIVE LevRow(_, _, _, _, _)
LevRow(prev, cur, tok, b, cost) ==
    IF Len(cur) = Len(prev) THEN cur
    ELSE LET j == Len(cur)
             subst == prev[j] + (IF tok = b[j] THEN 0 ELSE cost)
         IN  LevRow(prev, Append(cur, Min2(subst, Min2(prev[j + 1] + 1, cur[j] + 1))),
                    tok, b, cost)

RECURSIVE LevRows(_, _, _, _)
LevRows(prev, a, b, cost) ==
    IF a = <<>> THEN prev[Len(prev)]
    ELSE LevRows(LevRow(prev, <<prev[1] + 1>>, Head(a), b, cost), Tail(a), b, cost)

\* An edit distance that charges nothing for a substitution.
LevFreeSubst(a, b) == LevRows([j \in 1..(Len(b) + 1) |-> j - 1], a, b, 0)

\* editdistance.eval(a, b): the Levenshtein distance of two token lists.
Levenshtein(a, b) == LevRows([j \in 1..(Len(b) + 1) |-> j - 1], a, b, 1)

\* zip(actual, expected): as many pairs as the shorter list has.
ZipLen(actual, expected) == Min2(Len(actual), Len(expected))

RECURSIVE SumSeq(_)
SumSeq(s) == IF s = <<>> THEN 0 ELSE Head(s) + SumSeq(Tail(s))

calc_distances(actual, expected) ==
    [i \in 1..ZipLen(actual, expected) |-> Levenshtein(actual[i], expected[i])]

\* sum([torch.equal(seq, exp) for seq, exp in zip(...)])
CountEqual(actual, expected) ==
    Cardinality({i \in 1..ZipLen(actual, expected) : actual[i] = expected[i]})

ViewNames == {"full", "removed", "symbols"}

\* Python's a / b for b # 0, kept as the exact fraction.
Quotient(a, b) == [num |-> a, den |-> b]

\* The token counts of the expected views.
NumTokens(expected) ==
    [v \in ViewNames |-> SumSeq([b \in 1..Len(expected[v]) |-> Len(expected[v][b])])]

\* Full sequences of one batch: START, then a body of one common length.
StatBodies == {LBRACE, ONE}
StatBatches(n) ==
    UNION {[1..n -> {<<START>> \o body : body \in [1..len -> StatBodies]}] :
              len \in 0..MaxBody}

StatInit ==
    /\ pc = "idle" /\ curr_batch_size = 0 /\ beam_width = 0
    /\ dec = Idle /\ probabilities = <<>> /\ hypotheses = <<>>
    /\ step_hypotheses = <<>> /\ sequence = <<>> /\ result = <<>> /\ idx = 0
    /\ forward_log = <<>> /\ table = Idle
    /\ codec = Idle /\ pick = Idle
    /\ \E n \in 1..MaxPairs :
       \E full \in StatBatches(n), expected \in StatBatches(n) :
          LET views == BatchViews(expected)
          IN  stat = [pc |-> "call",
                      sequence |-> BatchViews(full),
                      expected |-> views,
                      num_tokens |-> NumTokens(views),
                      distance |-> "unset", error |-> "unset", correct |-> "unset",
                      percent |-> "unset"]

create_statistics_distance(hypothesis) ==
    [v \in ViewNames |->
        SumSeq(calc_distances(hypothesis.sequence[v], hypothesis.expected[v]))]

create_statistics_correct(hypothesis) ==
    [v \in ViewNames |-> CountEqual(hypothesis.sequence[v], hypothesis.expected[v])]

\* Divisions that never raise.
NeverRaises(num_tokens) == FALSE

\* distance[v] / num_tokens[v] on Python ints raises ZeroDivisionError when
\* num_tokens[v] is 0, for whichever view comes first.
RaisesZeroDivision(num_tokens) == \E v \in ViewNames : num_tokens[v] = 0

\* create_statistics(hypothesis): the distance is stored before the error
\* rates are divided out; a zero divisor raises before anything else is stored.
CreateStatistics ==
    /\ stat.pc = "call"
    /\ LET distance == create_statistics_distance(stat)
           correct == create_statistics_correct(stat)
           total == Len(stat.sequence["full"])
       IN  IF RaisesZeroDivision(stat.num_tokens)
           THEN stat' = [stat EXCEPT !.pc = "ZeroDivisionError", !.distance = distance]
           ELSE stat' = [stat EXCEPT
                           !.pc = "done",
                           !.distance = distance,
                           !.error = [v \in ViewNames |->
                                         Quotient(distance[v], stat.num_tokens[v])],
                           !.correct = correct @@ [total |-> total],
                           !.percent = [v \in ViewNames |-> Quotient(correct[v], total)]]
    /\ UNCHANGED <<evalVars, codec, pick, table>>

StatNext == CreateStatistics

SpecStat == StatInit /\ [][StatNext]_vars

(***************************************************************************)
(* Report: to_percent and create_markdown_tables.  A name is a tuple of   *)
(* characters; a formatted percentage is kept as its value in hundredths  *)
(* of a percent; a table is its header's model column width and its rows. *)
(***************************************************************************)
MaxModels == 2

Max2(a, b) == IF a >= b THEN a ELSE b

\* Python's round(): to the nearest integer, a half to the even one.
RoundHalfEven(num, den) ==
    LET floor == num \div den
        twice == 2 * (num % den)
    IN  IF twice < den THEN floor
        ELSE IF twice > den THEN floor + 1
        ELSE IF floor % 2 = 0 THEN floor ELSE floor + 1

\* to_percent(decimal, precision=2): round(decimal * 100 * 10 ** 2) / 10 ** 2
to_percent(decimal) == RoundHalfEven(decimal.num * 100 * 100, decimal.den)

ModelHeader == <<"M", "o", "d", "e", "l">>

\* max(len(key) for key in results.keys()) has no maximum over no keys.
TablesRaise(results) == results = <<>>

RECURSIVE MaxNameLen(_)
MaxNameLen(results) ==
    IF Len(results) = 1 THEN Len(results[1].name)
    ELSE Max2(Len(results[1].name), MaxNameLen(Tail(results)))

create_markdown_tables(results) ==
    LET model_pad == Max2(Len(ModelHeader), MaxNameLen(results))
    IN  [err_table |->
            [model_pad |-> model_pad,
             values |-> [i \in 1..Len(results) |->
                           [model |-> results[i].name,
                            token |-> to_percent(results[i].error["full"]),
                            no_special |-> to_percent(results[i].error["removed"]),
                            symbol |-> to_percent(results[i].error["symbols"])]]],
         correct_table |->
            [model_pad |-> model_pad,
             values |-> [i \in 1..Len(results) |->
                           [model |-> results[i].name,
                            token |-> to_percent(results[i].percent["full"]),
                            no_special |-> to_percent(results[i].percent["removed"]),
                            symbol |-> to_percent(results[i].percent["symbols"])]]]]

TableNames == {<<"m", "1">>, <<"c", "k", "p", "t", "5">>,
               <<"b", "a", "s", "e", "l", "i", "n", "e">>}
TableRates == {Quotient(0, 1), Quotient(1, 3), Quotient(2, 3)}

TableInit ==
    /\ pc = "idle" /\ curr_batch_size = 0 /\ beam_width = 0
    /\ dec = Idle /\ probabilities = <<>> /\ hypotheses = <<>>
    /\ step_hypotheses = <<>> /\ sequence = <<>> /\ result = <<>> /\ idx = 0
    /\ forward_log = <<>>
    /\ codec = Idle /\ pick = Idle /\ stat = Idle
    /\ \E len \in 0..MaxModels :
       \E names \in {f \in [1..len -> TableNames] :
                        \A i, j \in 1..len : i # j => f[i] # f[j]},
          error \in [1..len -> TableRates], percent \in [1..len -> TableRates] :
          table = [pc |-> "call",
                   results |-> [i \in 1..len |->
                                  [name |-> names[i],
                                   error |-> [v \in ViewNames |-> error[i]],
                                   percent |-> [v \in ViewNames |-> percent[i]]]],
                   out |-> <<>>]

CreateMarkdownTables ==
    /\ table.pc = "call"
    /\ table' = IF TablesRaise(table.results)
                THEN [table EXCEPT !.pc = "ValueError"]
                ELSE [table EXCEPT !.pc = "done",
                                   !.out = create_markdown_tables(table.results)]
    /\ UNCHANGED <<evalVars, codec, pick, stat>>

TableNext == CreateMarkdownTables

SpecTable == TableInit /\ [][TableNext]_vars


(***************************************************************************)
(* Properties.                                                             *)
(***************************************************************************)
IsSpecial(tok, special) == tok \in special
CodecCalled == codec.pc \in {"again", "views", "done"}
PickDone == pick.pc = "done"
Last(s) == s[Len(s)]
Beam(b, hyps) == [i \in 1..Len(hyps) |-> hyps[i].sequence.full[b]]
BeamProbs(b, hyps) == [i \in 1..Len(hyps) |-> hyps[i].probability[b]]

\* C1: evaluate returns the sequence views of the top hypothesis of the final
\* beam (the first one, which has the highest probability), whenever the final
\* beam holds one or more hypotheses.
C1_ReturnsTopHypothesis ==
    (pc = "done" /\ Len(hypotheses) >= 1) => result = hypotheses[1].sequence

\* C2: in the beam pick_top_k_unique returns, no two hypotheses hold the same
\* full sequence for the same input, for every input of the batch.
C2_BeamUnique ==
    PickDone =>
        \A b \in 1..pick.n : \A i, j \in 1..Len(pick.out) :
            i # j => pick.out[i].sequence.full[b] # pick.out[j].sequence.full[b]

\* An input had two candidates with one sequence, another input had none, and
\* the survivors were re-batched.
C2_Witness ==
    /\ PickDone /\ pick.n = 2 /\ pick.count = 2 /\ Len(pick.hypotheses) = 2
    /\ pick.hypotheses[1].sequence.full[1] = pick.hypotheses[2].sequence.full[1]
    /\ pick.hypotheses[1].sequence.full[2] # pick.hypotheses[2].sequence.full[2]
    /\ Len(pick.out) = 1

\* C3: the beam pick_top_k_unique(hypotheses, count) returns holds at most count
\* hypotheses and is ordered by probability descending for every input; the two
\* children (0.6, 0.3) of one expansion with count 2 come back as (0.6, 0.3).
C3_AtMostCountSortedDesc ==
    PickDone =>
        /\ Len(pick.out) <= pick.count
        /\ \A b \in 1..pick.n : \A i \in 1..(Len(pick.out) - 1) :
              pick.out[i].probability[b] >= pick.out[i + 1].probability[b]
        /\ ( /\ pick.n = 1 /\ pick.count = 2
             /\ BeamProbs(1, pick.hypotheses) = <<6, 3>>
             /\ pick.hypotheses[1].sequence.full[1] # pick.hypotheses[2].sequence.full[1] )
           => ( /\ BeamProbs(1, pick.out) = <<6, 3>>
                /\ Beam(1, pick.out) = Beam(1, pick.hypotheses) )

\* Two survivors per input, of candidates that came in ascending order.
C3_Witness ==
    /\ PickDone /\ pick.n = 2 /\ pick.count = 2 /\ Len(pick.out) = 2
    /\ pick.hypotheses[1].probability[1] < pick.hypotheses[2].probability[1]
    /\ pick.out[1].probability[1] > pick.out[2].probability[1]

\* C4: of the candidates of one input that hold the same full sequence, the
\* survivor with that sequence carries the maximum probability among them.
C4_DedupKeepsHigher ==
    PickDone =>
        \A b \in 1..pick.n : \A i \in 1..Len(pick.out) : \A k \in 1..Len(pick.hypotheses) :
            pick.hypotheses[k].sequence.full[b] = pick.out[i].sequence.full[b]
                => pick.hypotheses[k].probability[b] <= pick.out[i].probability[b]

\* Two candidates of one sequence, the less probable one first; the more
\* probable one survived.
C4_Witness ==
    /\ PickDone /\ Len(pick.hypotheses) = 2 /\ pick.count >= 1
    /\ pick.hypotheses[1].sequence.full[1] = pick.hypotheses[2].sequence.full[1]
    /\ pick.hypotheses[1].probability[1] < pick.hypotheses[2].probability[1]
    /\ Len(pick.out) = 1
    /\ pick.out[1].probability[1] = pick.hypotheses[2].probability[1]

\* The number of beam steps evaluate has completed.
StepsDone == IF pc \in {"start", "expand"} THEN 0 ELSE 1

\* C5: every hypothesis a beam step produces holds its parent's sequence plus
\* one token, and after n steps every hypothesis of the beam has n + 1 tokens,
\* the first of them START.
C5_OneTokenLonger ==
    /\ pc = "pick" =>
          \A c \in 1..Len(step_hypotheses) : \E parent \in 1..Len(hypotheses) :
              \A b \in 1..curr_batch_size :
                 LET child == step_hypotheses[c].sequence.full[b]
                     prev == hypotheses[parent].sequence.full[b]
                 IN  /\ Len(child) = Len(prev) + 1
                     /\ SubSeq(child, 1, Len(prev)) = prev
    /\ pc \in {"expand", "views", "return", "done"} =>
          \A i \in 1..Len(hypotheses) : \A b \in 1..curr_batch_size :
              /\ Len(hypotheses[i].sequence.full[b]) = StepsDone + 1
              /\ hypotheses[i].sequence.full[b][1] = START

\* A beam of two hypotheses over two inputs after the step.
C5_Witness ==
    /\ pc = "done" /\ curr_batch_size = 2 /\ Len(hypotheses) = 2
    /\ Len(hypotheses[2].sequence.full[2]) = 2

\* C6: a child's probability is its parent's times the conditional probability
\* of its token, which lies in [0, 1]; so it is at most the parent's, and every
\* probability stays in [0, 1] from the seed's 1.0 on.
C6_ProbabilityNonIncreasing ==
    /\ pc = "expand" => \A b \in 1..curr_batch_size : hypotheses[1].probability[b] = Scale
    /\ pc = "pick" =>
          \A c \in 1..Len(step_hypotheses) : \A b \in 1..curr_batch_size :
              LET child == step_hypotheses[c]
                  p == probabilities[b][Last(child.sequence.full[b])]
              IN  /\ p \in 0..Scale
                  /\ child.probability[b] * Scale = hypotheses[1].probability[b] * p
                  /\ child.probability[b] <= hypotheses[1].probability[b]
    /\ pc \in {"expand", "pick", "views", "return", "done"} =>
          \A i \in 1..Len(hypotheses) : \A b \in 1..curr_batch_size :
              hypotheses[i].probability[b] \in 0..Scale

\* Two children of the seed, one of probability 0.6 and one of 0.3.
C6_Witness ==
    /\ pc = "pick" /\ beam_width = 2 /\ Len(step_hypotheses) = 2
    /\ step_hypotheses[1].probability[1] = 6
    /\ step_hypotheses[2].probability[1] = 3
    /\ hypotheses[1].probability[1] = Scale

\* C7: remove_special_tokens with strip_only = True returns a sequence that
\* holds no special token unchanged.
C7_StripLeavesCleanSequence ==
    ( /\ CodecCalled /\ codec.strip_only
      /\ \A i \in 1..Len(codec.tokens) : ~IsSpecial(codec.tokens[i], codec.special_tokens) )
    => codec.out = codec.tokens

\* C8: the result of remove_special_tokens with strip_only = True has no special
\* token in its first position and none in its last, so a second strip counts
\* no special token at either end.
C8_StripEndsClean ==
    (CodecCalled /\ codec.strip_only) =>
        /\ codec.out # <<>> =>
              /\ ~IsSpecial(codec.out[1], codec.special_tokens)
              /\ ~IsSpecial(Last(codec.out), codec.special_tokens)
        /\ CountLeft(codec.out, codec.special_tokens) = 0
        /\ CountRight(codec.out, codec.special_tokens) = 0

\* Special tokens at both ends were cut off and something is left.
C8_Witness ==
    /\ codec.pc = "done" /\ codec.strip_only
    /\ Len(codec.tokens) = 3
    /\ IsSpecial(codec.tokens[1], codec.special_tokens)
    /\ IsSpecial(codec.tokens[3], codec.special_tokens)
    /\ codec.out = <<codec.tokens[2]>>

NonSpecialPositions(tokens, special) ==
    {i \in 1..Len(tokens) : ~IsSpecial(tokens[i], special)}

\* C9: remove_special_tokens with strip_only = False returns the non-special
\* tokens of its input in their order and nothing else, applying it again
\* changes nothing, and symbols is a subsequence of removed, removed of full.
C9_RemoveAllExact ==
    /\ (CodecCalled /\ ~codec.strip_only) =>
          /\ IsSubsequence(codec.out, codec.tokens)
          /\ \A i \in 1..Len(codec.out) : ~IsSpecial(codec.out[i], codec.special_tokens)
          /\ Len(codec.out) =
                 Cardinality(NonSpecialPositions(codec.tokens, codec.special_tokens))
    /\ (codec.pc \in {"views", "done"} /\ ~codec.strip_only) => codec.again = codec.out
    /\ codec.pc = "done" =>
          /\ codec.views.full = codec.tokens
          /\ IsSubsequence(codec.views.removed, codec.views.full)
          /\ IsSubsequence(codec.views.symbols, codec.views.removed)
          /\ \A i \in 1..Len(codec.views.removed) :
                 codec.views.removed[i] \notin special_tokens
          /\ \A i \in 1..Len(codec.views.symbols) :
                 codec.views.symbols[i] \notin (special_tokens \cup non_symbols_encoded)

\* Two special tokens inside the sequence were removed, and the three views
\* of the sequence differ.
C9_Witness ==
    /\ codec.pc = "done" /\ ~codec.strip_only
    /\ codec.tokens = <<ONE, START, LBRACE>>
    /\ codec.special_tokens = special_tokens
    /\ codec.out = <<ONE, LBRACE>>
    /\ codec.views.symbols = <<ONE>>

AllPairsEqual(v) ==
    \A b \in 1..Len(stat.sequence[v]) : stat.sequence[v][b] = stat.expected[v][b]

\* C10: for each view with a positive expected-token count, the error rate
\* create_statistics stores is the summed distance over that count, is >= 0,
\* and is 0 exactly when every predicted sequence equals its expected one.
C10_ErrorRateZeroIffEqual ==
    stat.pc = "done" =>
        \A v \in ViewNames :
            /\ stat.num_tokens[v] > 0
            /\ stat.error[v].den = stat.num_tokens[v]
            /\ stat.error[v].num = stat.distance[v]
            /\ stat.error[v].num >= 0
            /\ (stat.error[v].num = 0) <=> AllPairsEqual(v)

\* Two pairs whose symbols agree while their full sequences do not.
C10_Witness ==
    /\ stat.pc = "done" /\ Len(stat.sequence["full"]) = 2
    /\ stat.error["symbols"].num = 0
    /\ stat.error["full"].num = 2
    /\ stat.expected["symbols"][1] # <<>>

\* The single-step scenario as evaluate runs it: with beam_width 2 and a softmax
\* row whose two largest entries are 0.6 and 0.3, the beam after the step holds
\* exactly the two children, in the order (0.6, 0.3), each of two tokens.
ScenarioInEvaluate ==
    ( /\ pc \in {"views", "return", "done"} /\ beam_width = 2 /\ curr_batch_size = 1
      /\ \E t, u \in Vocab : /\ probabilities[1][t] = 6 /\ probabilities[1][u] = 3
                             /\ \A v \in Vocab \ {t, u} : probabilities[1][v] < 3 )
    => /\ BeamProbs(1, hypotheses) = <<6, 3>>
       /\ \A i \in 1..2 : Len(hypotheses[i].sequence.full[1]) = 2
       /\ \A i \in 1..2 : probabilities[1][Last(hypotheses[i].sequence.full[1])]
                              = hypotheses[i].probability[1]

\* C11: when the expected-token count of a view is 0, create_statistics fails
\* with a division-by-zero error and stores no error rate (and nothing after
\* it) in the hypothesis; it fails in no other case.
C11_ZeroCountRaises ==
    stat.pc \in {"done", "ZeroDivisionError"} =>
        /\ (\E v \in ViewNames : stat.num_tokens[v] = 0) <=> stat.pc = "ZeroDivisionError"
        /\ stat.pc = "ZeroDivisionError" =>
              /\ stat.error = "unset"
              /\ stat.correct = "unset"
              /\ stat.percent = "unset"

\* The expected sequences hold no symbol, though they hold other tokens.
C11_Witness ==
    /\ stat.pc = "ZeroDivisionError"
    /\ stat.num_tokens["symbols"] = 0
    /\ stat.num_tokens["removed"] > 0
    /\ stat.num_tokens["full"] > 0
    /\ stat.error = "unset"
    /\ Len(stat.sequence["full"]) = 2

\* C12: create_markdown_tables called with an empty result set does not fail
\* and yields tables with no data rows.
C12_EmptyResultsEmptyTables ==
    (table.pc # "call" /\ table.results = <<>>) =>
        /\ table.pc = "done"
        /\ table.out.err_table.values = <<>>
        /\ table.out.correct_table.values = <<>>

\* The distinct full sequences among the candidates of input b.
CandidateSeqs(b) == {pick.hypotheses[k].sequence.full[b] : k \in 1..Len(pick.hypotheses)}

\* The best probability a sequence has among the candidates of input b.
BestProb(b, s) ==
    LET ps == {pick.hypotheses[k].probability[b] :
                  k \in {j \in 1..Len(pick.hypotheses) :
                            pick.hypotheses[j].sequence.full[b] = s}}
    IN  CHOOSE p \in ps : \A q \in ps : q <= p

\* The number of unique survivors of input b: its distinct sequences, at most count.
SurvivorCount(b) == Min2(pick.count, Cardinality(CandidateSeqs(b)))

MinSurvivors ==
    CHOOSE m \in {SurvivorCount(b) : b \in 1..pick.n} :
        \A b \in 1..pick.n : m <= SurvivorCount(b)

\* C13: batch_single_hypotheses returns exactly m batched hypotheses, m the
\* minimum number of unique survivors over the inputs; each holds one entry for
\* every input, the i-th best survivor of that input at beam position i, and
\* the survivors ranked beyond m are dropped for every input.
C13_TruncatesToMinimum ==
    PickDone =>
        /\ Len(pick.out) = MinSurvivors
        /\ \A i \in 1..Len(pick.out) :
              /\ Len(pick.out[i].sequence.full) = pick.n
              /\ Len(pick.out[i].probability) = pick.n
              /\ Len(pick.out[i].hidden) = pick.n
              /\ \A b \in 1..pick.n :
                    LET s == pick.out[i].sequence.full[b]
                        p == pick.out[i].probability[b]
                        k == pick.out[i].hidden[b]
                    IN  /\ k \in 1..Len(pick.hypotheses)
                        /\ pick.hypotheses[k].sequence.full[b] = s
                        /\ pick.hypotheses[k].probability[b] = p
                        /\ p = BestProb(b, s)
                        /\ Cardinality({t \in CandidateSeqs(b) : BestProb(b, t) > p}) <= i - 1
                        /\ Cardinality({t \in CandidateSeqs(b) : BestProb(b, t) >= p}) >= i

\* Input 1 has one unique survivor and input 2 has two: one batched hypothesis
\* comes back, with the better survivor of input 2, and the other is dropped.
C13_Witness ==
    /\ PickDone /\ pick.n = 2 /\ pick.count = 2
    /\ SurvivorCount(1) = 1 /\ SurvivorCount(2) = 2
    /\ Len(pick.out) = 1
    /\ BeamProbs(2, pick.hypotheses) = <<3, 6>>
    /\ pick.out[1].probability[2] = 6
    /\ pick.out[1].hidden[2] = 2

\* The parent, in the beam being expanded, of the c-th step hypothesis.
ParentOf(c) == ((c - 1) \div beam_width) + 1

====
